---- MODULE Spec2Model ----
(***************************************************************************)
(* Session and room state machine of the Socket.IO signaling server        *)
(* (src/src/socketio_server.js, room-aware variant, lines 1-262).          *)
(*                                                                         *)
(* The server keeps two maps: connectionMap (cid -> socket) and            *)
(* roomMembers (room -> insertion-ordered set of cids).  Every socket      *)
(* carries the fields socket.cid and socket.room.  Handlers run to         *)
(* completion on the single JavaScript thread, so each handler is one      *)
(* atomic action; socket.disconnect() runs the socket's own 'disconnect'   *)
(* listener synchronously, inside the handler that called it.              *)
(*                                                                         *)
(* Timestamps and console output are not modelled: they feed no state.     *)
(* Listener setup and shutdown (server.start, server.stop) are left out.   *)
(***************************************************************************)
EXTENDS Integers, Sequences, FiniteSets, TLC

\* ------------------------------------------------------------------ bounds
\* Number of socket objects alive at once (connected, or closed and still
\* held by connectionMap); any number of connections may arrive over a run.
MaxSockets == 2

Sockets == 1..MaxSockets

\* Client identities the external authenticator may assign.
Cids == {"alice", "bob"}

\* Room names: the default room of line 74 and one the authenticator names.
DefaultRoom == "default-room"

NamedRooms == {"r1"}

Rooms == {DefaultRoom} \cup NamedRooms

\* The two listeners of startServer; each is a separate Socket.IO server.
Listeners == {"plain", "secure"}

\* JavaScript undefined / null (both falsy): an unset socket.cid, an absent
\* payload field, an authenticator result without a room.
Null == "<null>"

forwardEventName == "owt-message"

\* error.code of emitChatEvent (line 51) and the ack code of line 191; both
\* are held as strings here.
ErrUnreachable == "2201"

ErrUnauthenticated == "2120"

\* Disconnect reasons the transport reports (lines 166-184).
ServerReason == "io server disconnect"

TransportReasons == {"ping timeout", "transport close", "io client disconnect", "unknown"}

NoData == [none |-> TRUE]

VARIABLES
  connectionMap,  \* Map cid -> socket (line 33); a function on the present keys
  roomMembers,    \* Map room -> Set<cid> (line 17); values are sequences in insertion order
  socketCid,      \* socket.cid, Null until authenticated (lines 40, 76)
  socketRoom,     \* socket.room (line 77)
  status,         \* transport state of each socket: "idle" (not yet arrived), "open", "closed"
  listener,       \* the Socket.IO server (plain / secure) the socket arrived on
  joined          \* transport-level rooms of each socket (socket.join, line 82)

vars == <<connectionMap, roomMembers, socketCid, socketRoom, status, listener, joined>>

\* ---------------------------------------------------------------- helpers
Range(f) == {f[x] : x \in DOMAIN f}

SocketSeq == [i \in 1..MaxSockets |-> i]

\* Set.add on an insertion-ordered set: an element already present keeps its place.
SetAdd(seq, x) == IF x \in Range(seq) THEN seq ELSE Append(seq, x)

\* Set.delete on an insertion-ordered set.
SetDelete(seq, x) == SelectSeq(seq, LAMBDA y : y # x)

\* Map.set / Map.delete on a map held as a function on its keys.
MapSet(m, k, v) == [x \in DOMAIN m \cup {k} |-> IF x = k THEN v ELSE m[x]]

MapDelete(m, k) == [x \in DOMAIN m \ {k} |-> m[x]]

\* The state a handler threads through its statements.  Its log field lists
\* what the handler did, in order: emits, acks, closes, callbacks.  The log
\* is the handler's output and is not kept from one event to the next.
State == [connectionMap |-> connectionMap, roomMembers |-> roomMembers, socketCid |-> socketCid, socketRoom |-> socketRoom, status |-> status, listener |-> listener, joined |-> joined, log |-> << >>]

Entry(kind, sock, name, data) == [kind |-> kind, sock |-> sock, name |-> name, data |-> data]

Logged(st, e) == [st EXCEPT !.log = Append(@, e)]

\* socket.emit(eventName, data) on one socket.
Emit(st, s, name, data) == Logged(st, Entry("emit", s, name, data))

\* ackCallback(data) of the event socket s sent.
Ack(st, s, name, data) == Logged(st, Entry("ack", s, name, data))

\* Sockets a room broadcast of server srv reaches: the connected sockets of
\* that server that joined the room, but for the excluded one (socket.to).
Recipients(st, srv, room, except) == SelectSeq(SocketSeq, LAMBDA t : st.status[t] = "open" /\ st.listener[t] = srv /\ room \in st.joined[t] /\ t # except)

\* socket.server.sockets.in(room).emit(...) (except = 0) and
\* socket.to(room).emit(...) (except = the socket).
Broadcast(st, srv, room, except, name, data) == LET to == Recipients(st, srv, room, except) IN [st EXCEPT !.log = @ \o [i \in 1..Len(to) |-> Entry("emit", to[i], name, data)]]

\* --------------------------------------------------------------- handlers
\* server.ondisconnect(cid), line 160: the external disconnect observer.
Observe(st, s, cid) == Logged(st, Entry("ondisconnect", s, cid, NoData))

\* Mutant of roomLeave: the emptied room is kept.
roomLeave_KeepEmpty(rm, room, cid) == MapSet(rm, room, SetDelete(rm[room], cid))

\* Mutant of roomLeave: the size is tested before the member is deleted.
roomLeave_SizeFirst(rm, room, cid) == IF Len(rm[room]) = 0 THEN MapDelete(rm, room) ELSE MapSet(rm, room, SetDelete(rm[room], cid))

\* Lines 133-137: members.delete(cid); an emptied room is removed.
roomLeave(rm, room, cid) == LET members == SetDelete(rm[room], cid) IN IF Len(members) = 0 THEN MapDelete(rm, room) ELSE MapSet(rm, room, members)

\* Lines 84-87: the room's set is created on first use, then cid is added.
roomJoin(rm, room, cid) == LET members == IF room \in DOMAIN rm THEN rm[room] ELSE << >> IN MapSet(rm, room, SetAdd(members, cid))

\* Lines 129-131: connectionMap.delete(cid) when present.
unregister(cm, cid) == IF cid \in DOMAIN cm THEN MapDelete(cm, cid) ELSE cm

\* Mutant of onDisconnect: the test of socket.cid (line 125) is missing.
onDisconnect_NoCidGuard(st, s, reason) ==
  LET cid == st.socketCid[s]
      room == st.socketRoom[s]
      st1 == [st EXCEPT !.connectionMap = unregister(@, cid)]
      hasRoom == room # Null /\ room \in DOMAIN st1.roomMembers
      members == IF hasRoom THEN SetDelete(st1.roomMembers[room], cid) ELSE << >>
      st2 == IF hasRoom THEN [st1 EXCEPT !.roomMembers = roomLeave(@, room, cid)] ELSE st1
      st3 == IF hasRoom THEN Broadcast(st2, st2.listener[s], room, s, "room-event", [type |-> "user-left", cid |-> cid, users |-> members]) ELSE st2
  IN Observe(st3, s, cid)

\* Mutant of onDisconnect: a server-initiated disconnect skips the cleanup.
onDisconnect_ServerSkips(st, s, reason) ==
  LET cid == st.socketCid[s]
      room == st.socketRoom[s]
  IN IF cid = Null \/ reason = ServerReason THEN st
     ELSE LET st1 == [st EXCEPT !.connectionMap = unregister(@, cid)]
              hasRoom == room # Null /\ room \in DOMAIN st1.roomMembers
              members == IF hasRoom THEN SetDelete(st1.roomMembers[room], cid) ELSE << >>
              st2 == IF hasRoom THEN [st1 EXCEPT !.roomMembers = roomLeave(@, room, cid)] ELSE st1
              st3 == IF hasRoom THEN Broadcast(st2, st2.listener[s], room, s, "room-event", [type |-> "user-left", cid |-> cid, users |-> members]) ELSE st2
          IN Observe(st3, s, cid)

\* The 'disconnect' listener, lines 122-186.  The reason only selects a log
\* line (lines 166-184).
onDisconnect(st, s, reason) ==
  LET cid == st.socketCid[s]
      room == st.socketRoom[s]
  IN IF cid = Null THEN st
     ELSE LET st1 == [st EXCEPT !.connectionMap = unregister(@, cid)]
              hasRoom == room # Null /\ room \in DOMAIN st1.roomMembers
              members == IF hasRoom THEN SetDelete(st1.roomMembers[room], cid) ELSE << >>
              st2 == IF hasRoom THEN [st1 EXCEPT !.roomMembers = roomLeave(@, room, cid)] ELSE st1
              st3 == IF hasRoom THEN Broadcast(st2, st2.listener[s], room, s, "room-event", [type |-> "user-left", cid |-> cid, users |-> members]) ELSE st2
          IN Observe(st3, s, cid)

\* The transport closing socket s (socket.disconnect() of lines 41, 69, 192,
\* or a close the peer or the network caused): a connected socket leaves its
\* rooms, is marked disconnected, and its 'disconnect' listener runs, once.
\* A socket that is already disconnected is left alone.
Close(st, s, reason) ==
  IF st.status[s] # "open" THEN st
  ELSE onDisconnect(Logged([st EXCEPT !.status[s] = "closed", !.joined[s] = {}], Entry("close", s, "disconnect", NoData)), s, reason)

\* Mutant of disconnectClient: connection.cid is not cleared (line 40).
disconnectClient_KeepCid(st, cid) ==
  IF cid \in DOMAIN st.connectionMap
  THEN LET connection == st.connectionMap[cid]
           st1 == Emit(st, connection, "server-disconnect", NoData)
           st2 == [st1 EXCEPT !.connectionMap = MapDelete(@, cid)]
       IN Close(st2, connection, ServerReason)
  ELSE st

\* Mutant of disconnectClient: the connection is closed first and notified
\* afterwards.
disconnectClient_CloseFirst(st, cid) ==
  IF cid \in DOMAIN st.connectionMap
  THEN LET connection == st.connectionMap[cid]
           st1 == [st EXCEPT !.connectionMap = MapDelete(@, cid), !.socketCid[connection] = Null]
       IN Emit(Close(st1, connection, ServerReason), connection, "server-disconnect", NoData)
  ELSE st

\* disconnectClient, lines 35-43; also server.disconnect (line 255).
disconnectClient(st, cid) ==
  IF cid \in DOMAIN st.connectionMap
  THEN LET connection == st.connectionMap[cid]
           st1 == Emit(st, connection, "server-disconnect", NoData)
           st2 == [st1 EXCEPT !.connectionMap = MapDelete(@, cid), !.socketCid[connection] = Null]
       IN Close(st2, connection, ServerReason)
  ELSE st

\* Mutant of emitChatEvent: an absent target is skipped without an error.
emitChatEvent_Resolves(st, targetCid, eventName, message) ==
  IF targetCid \in DOMAIN st.connectionMap
  THEN [st |-> Emit(st, st.connectionMap[targetCid], eventName, message), code |-> Null]
  ELSE [st |-> st, code |-> Null]

\* emitChatEvent, lines 45-54: the state after it and the code of the error
\* it rejects with (Null when it resolves).
emitChatEvent(st, targetCid, eventName, message) ==
  IF targetCid \in DOMAIN st.connectionMap
  THEN [st |-> Emit(st, st.connectionMap[targetCid], eventName, message), code |-> Null]
  ELSE [st |-> st, code |-> ErrUnreachable]

\* server.send, lines 249-251.
send(st, cid, message) == emitChatEvent(st, cid, forwardEventName, message)

\* server.onmessage(to, data): the message callback the embedding application
\* installs; it routes through the connection directory (server.send).
onmessage(st, s, to, data) == send(Logged(st, Entry("onmessage", s, to, data)), to, data)

\* Mutant of stampSender: a 'from' the sender wrote is kept.
stampSender_KeepClaimed(data, cid) == [data EXCEPT !.from = IF @ = Null THEN cid ELSE @, !.to = Null]

\* Lines 195-197: the sender's cid is stamped, the destination is removed.
stampSender(data, cid) == [data EXCEPT !.from = cid, !.to = Null]

\* Mutant of onForward: the check of socket.cid is missing.
onForward_Unguarded(st, s, data) ==
  LET r == onmessage(st, s, data.to, stampSender(data, st.socketCid[s]))
  IN Ack(r.st, s, forwardEventName, IF r.code = Null THEN NoData ELSE [code |-> r.code])

\* The forward-event listener, lines 188-205.
onForward(st, s, data) ==
  IF st.socketCid[s] = Null
  THEN Close(Ack(st, s, forwardEventName, [code |-> ErrUnauthenticated]), s, ServerReason)
  ELSE LET r == onmessage(st, s, data.to, stampSender(data, st.socketCid[s]))
       IN Ack(r.st, s, forwardEventName, IF r.code = Null THEN NoData ELSE [code |-> r.code])

\* Mutant of authFailure: the error is acknowledged, the socket stays open.
authFailure_StaysOpen(st, s, result) == Ack(st, s, "authentication", [error |-> result.error])

\* Lines 67-71: the authenticator refused the token.
authFailure(st, s, result) == Close(Ack(st, s, "authentication", [error |-> result.error]), s, ServerReason)

\* Mutant of authSuccess: the handshake is acknowledged before the room
\* broadcasts.
authSuccess_AckFirst(st, s, result) ==
  LET cid == result.cid
      room == IF result.room = Null THEN DefaultRoom ELSE result.room
      st1 == disconnectClient(st, cid)
      st2 == [st1 EXCEPT !.socketCid[s] = cid, !.socketRoom[s] = room, !.connectionMap = MapSet(@, cid, s), !.joined[s] = @ \cup {room}]
      st3 == [st2 EXCEPT !.roomMembers = roomJoin(@, room, cid)]
      allUsers == st3.roomMembers[room]
      userList == SelectSeq(allUsers, LAMBDA uid : uid # cid)
      st4 == Ack(Emit(st3, s, "server-authenticated", [uid |-> cid]), s, "authentication", [uid |-> cid, room |-> room])
      st5 == Broadcast(st4, st4.listener[s], room, 0, "room-list", [users |-> allUsers])
  IN Broadcast(st5, st5.listener[s], room, 0, "room-event", [type |-> "user-joined", cid |-> cid, users |-> userList])

\* Mutant of authSuccess: the new connection is installed before the old
\* one is evicted.
authSuccess_SetFirst(st, s, result) ==
  LET cid == result.cid
      room == IF result.room = Null THEN DefaultRoom ELSE result.room
      st1 == [st EXCEPT !.socketCid[s] = cid, !.socketRoom[s] = room, !.connectionMap = MapSet(@, cid, s), !.joined[s] = @ \cup {room}]
      st2 == disconnectClient(st1, cid)
      st3 == [st2 EXCEPT !.roomMembers = roomJoin(@, room, cid)]
      allUsers == st3.roomMembers[room]
      userList == SelectSeq(allUsers, LAMBDA uid : uid # cid)
      st4 == Emit(st3, s, "server-authenticated", [uid |-> cid])
      st5 == Broadcast(st4, st4.listener[s], room, 0, "room-list", [users |-> allUsers])
      st6 == Broadcast(st5, st5.listener[s], room, 0, "room-event", [type |-> "user-joined", cid |-> cid, users |-> userList])
  IN Ack(st6, s, "authentication", [uid |-> cid, room |-> room])

\* Lines 72-119: the authenticator assigned a cid (and maybe a room).
authSuccess(st, s, result) ==
  LET cid == result.cid
      room == IF result.room = Null THEN DefaultRoom ELSE result.room
      st1 == disconnectClient(st, cid)
      st2 == [st1 EXCEPT !.socketCid[s] = cid, !.socketRoom[s] = room, !.connectionMap = MapSet(@, cid, s), !.joined[s] = @ \cup {room}]
      st3 == [st2 EXCEPT !.roomMembers = roomJoin(@, room, cid)]
      allUsers == st3.roomMembers[room]
      userList == SelectSeq(allUsers, LAMBDA uid : uid # cid)
      st4 == Emit(st3, s, "server-authenticated", [uid |-> cid])
      st5 == Broadcast(st4, st4.listener[s], room, 0, "room-list", [users |-> allUsers])
      st6 == Broadcast(st5, st5.listener[s], room, 0, "room-event", [type |-> "user-joined", cid |-> cid, users |-> userList])
  IN Ack(st6, s, "authentication", [uid |-> cid, room |-> room])

\* The 'authentication' listener, lines 64-120.
onAuthentication(st, s, result) == IF result.error # Null THEN authFailure(st, s, result) ELSE authSuccess(st, s, result)

\* onConnection, lines 56-63: a socket that already carries a cid is
\* registered at once; the listeners of lines 64-205 are then attached.
onConnection(st, s) ==
  IF st.socketCid[s] # Null
  THEN LET cid == st.socketCid[s] IN [disconnectClient(st, cid) EXCEPT !.connectionMap = MapSet(@, cid, s)]
  ELSE st

\* ----------------------------------------------------------------- inputs
\* What the external authenticator may return for a token.
AuthResults == [error : {"denied"}, cid : {Null}, room : {Null}] \cup [error : {Null}, cid : Cids, room : NamedRooms \cup {Null}]

\* Forward payloads: the sender claims a 'from' that is never its own cid
\* and addresses any cid.
Forged == "mallory"

Payloads == [from : {Forged}, to : Cids, text : {"hi"}]

\* Messages the application sends through server.send.
ServerMessages == [from : {Null}, to : {Null}, text : {"srv"}]

\* ------------------------------------------------------------ transitions
\* A closed socket that connectionMap no longer holds is unreachable from the
\* program: the runtime discards the object.  Its slot in the finite pool of
\* Sockets returns to "idle" and may carry a later connection.
Discarded(st) == {s \in Sockets : st.status[s] = "closed" /\ s \notin Range(st.connectionMap)}

Collect(st) ==
  LET gone == Discarded(st)
  IN [st EXCEPT !.status = [s \in Sockets |-> IF s \in gone THEN "idle" ELSE @[s]],
                !.socketCid = [s \in Sockets |-> IF s \in gone THEN Null ELSE @[s]],
                !.socketRoom = [s \in Sockets |-> IF s \in gone THEN Null ELSE @[s]],
                !.listener = [s \in Sockets |-> IF s \in gone THEN "plain" ELSE @[s]],
                !.joined = [s \in Sockets |-> IF s \in gone THEN {} ELSE @[s]]]

Commit(done) ==
  \E st \in {Collect(done)} :
  /\ connectionMap' = st.connectionMap
  /\ roomMembers' = st.roomMembers
  /\ socketCid' = st.socketCid
  /\ socketRoom' = st.socketRoom
  /\ status' = st.status
  /\ listener' = st.listener
  /\ joined' = st.joined

Init ==
  /\ connectionMap = << >>
  /\ roomMembers = << >>
  /\ socketCid = [s \in Sockets |-> Null]
  /\ socketRoom = [s \in Sockets |-> Null]
  /\ status = [s \in Sockets |-> "idle"]
  /\ listener = [s \in Sockets |-> "plain"]
  /\ joined = [s \in Sockets |-> {}]

\* A client connects to one of the two listeners (lines 230, 235).  Sockets
\* are numbered in order of arrival.
Connection ==
  \E s \in Sockets, srv \in Listeners :
    /\ status[s] = "idle"
    /\ \A t \in Sockets : t < s => status[t] # "idle"
    /\ Commit(onConnection([State EXCEPT !.status[s] = "open", !.listener[s] = srv], s))

\* A connected socket receives an 'authentication' event.
Authentication ==
  \E s \in Sockets, result \in AuthResults :
    /\ status[s] = "open"
    /\ Commit(onAuthentication(State, s, result))

\* A connected socket receives a forward event.
Forward ==
  \E s \in Sockets, data \in Payloads :
    /\ status[s] = "open"
    /\ Commit(onForward(State, s, data))

\* The transport reports the loss of a connected socket.
Disconnect ==
  \E s \in Sockets, reason \in TransportReasons :
    /\ status[s] = "open"
    /\ Commit(Close(State, s, reason))

\* The application calls server.send(cid, message).
ServerSend ==
  \E cid \in Cids, message \in ServerMessages :
    /\ message.text = "srv"
    /\ Commit(send(State, cid, message).st)

\* The application calls server.disconnect(cid).
ServerDisconnect ==
  \E cid \in Cids :
    /\ cid # Null
    /\ Commit(disconnectClient(State, cid))

Next ==
  \/ Connection
  \/ ServerDisconnect
  \/ ServerSend
  \/ Disconnect
  \/ Forward
  \/ Authentication

Spec == Init /\ [][Next]_vars

TypeOK ==
  /\ DOMAIN connectionMap \subseteq Cids
  /\ \A c \in DOMAIN connectionMap : connectionMap[c] \in Sockets
  /\ DOMAIN roomMembers \subseteq Rooms
  /\ \A r \in DOMAIN roomMembers : Range(roomMembers[r]) \subseteq Cids /\ Cardinality(Range(roomMembers[r])) = Len(roomMembers[r])
  /\ socketCid \in [Sockets -> Cids \cup {Null}]
  /\ socketRoom \in [Sockets -> Rooms \cup {Null}]
  /\ status \in [Sockets -> {"idle", "open", "closed"}]
  /\ listener \in [Sockets -> Listeners]
  /\ joined \in [Sockets -> SUBSET Rooms]

\* ----------------------------------------------------------- observations
\* The entries of a handler's log of one kind.
OfKind(lg, kind) == SelectSeq(lg, LAMBDA e : e.kind = kind)

\* The sockets a handler emitted event `name` to, and the emits themselves.
EmitsOf(lg, name) == SelectSeq(lg, LAMBDA e : e.kind = "emit" /\ e.name = name)

\* The members of room r in a room registry (none when the room is absent).
Members(rm, r) == IF r \in DOMAIN rm THEN Range(rm[r]) ELSE {}

\* An authenticator result that assigns a cid.
Succeeds(result) == result.error = Null

AllReasons == TransportReasons \cup {ServerReason}

\* ------------------------------------------------------------------ claims

\* C1 (single-session invariant): whenever a connection authenticates under
\* a cid that is already in the directory, the connection registered before
\* is closed and is no longer held anywhere in the directory, and the
\* directory maps the cid to the newly authenticated connection.  Stated for
\* a newcomer other than the registered connection.
C1_SingleSession ==
  \A s \in Sockets, result \in AuthResults :
    (status[s] = "open" /\ Succeeds(result) /\ result.cid \in DOMAIN connectionMap /\ connectionMap[result.cid] # s) =>
      LET prev == connectionMap[result.cid]
          after == onAuthentication(State, s, result)
      IN /\ after.status[prev] = "closed"
         /\ prev \notin Range(after.connectionMap)
         /\ after.connectionMap[result.cid] = s

\* C2 (room registry invariant): a cid is in the member set of room r only
\* if the directory holds a live connection for that cid whose room is r.
C2_RoomRegistry ==
  \A r \in DOMAIN roomMembers : \A c \in Range(roomMembers[r]) :
    /\ c \in DOMAIN connectionMap
    /\ status[connectionMap[c]] = "open"
    /\ socketRoom[connectionMap[c]] = r

\* C3 (no empty rooms persist): every room that is a key of the registry
\* has a non-empty member set, and the disconnect that removes the last
\* member of a room deletes the room entry.
C3_NoEmptyRooms ==
  /\ \A r \in DOMAIN roomMembers : Len(roomMembers[r]) > 0
  /\ \A s \in Sockets, reason \in TransportReasons :
       (status[s] = "open" /\ socketCid[s] # Null /\ Members(roomMembers, socketRoom[s]) = {socketCid[s]}) =>
         socketRoom[s] \notin DOMAIN Close(State, s, reason).roomMembers

\* C3 witness: a connected client is the only member of its room, and its
\* disconnect removes the room.
C3_Witness ==
  \E s \in Sockets :
    /\ status[s] = "open" /\ socketCid[s] # Null
    /\ roomMembers[socketRoom[s]] = << socketCid[s] >>
    /\ socketRoom[s] \notin DOMAIN Close(State, s, "ping timeout").roomMembers

\* C4 (routing correctness): a forward event from an authenticated connection
\* with cid c, addressed to a cid d of the directory, emits exactly one
\* forward event; it goes to d's registered connection, its 'from' is c
\* whatever 'from' the sender wrote, it carries no 'to', the rest of the
\* payload is untouched, and the sender's acknowledgment carries no error.
C4_RoutingCorrectness ==
  \A s \in Sockets, data \in Payloads :
    (status[s] = "open" /\ socketCid[s] # Null /\ data.to \in DOMAIN connectionMap) =>
      LET lg == onForward(State, s, data).log
          sent == EmitsOf(lg, forwardEventName)
      IN /\ Len(sent) = 1
         /\ sent[1].sock = connectionMap[data.to]
         /\ sent[1].data = [from |-> socketCid[s], to |-> Null, text |-> data.text]
         /\ OfKind(lg, "ack") = << Entry("ack", s, forwardEventName, NoData) >>

\* C4 witness: an authenticated sender that claims another 'from' addresses
\* a cid registered to another connection, and the event reaches it.
C4_Witness ==
  \E s \in Sockets, data \in Payloads :
    /\ status[s] = "open" /\ socketCid[s] # Null /\ data.from # socketCid[s]
    /\ data.to \in DOMAIN connectionMap /\ connectionMap[data.to] # s
    /\ \E e \in Range(onForward(State, s, data).log) : e.kind = "emit" /\ e.sock = connectionMap[data.to]

\* C5 (unreachable delivery): routing to a cid that is absent from the
\* directory, from a forward event or from server.send, emits nothing,
\* changes nothing (so nothing is kept for later delivery) and reports the
\* unreachable-endpoint code to the sender.
C5_UnreachableDelivery ==
  /\ \A s \in Sockets, data \in Payloads :
       (status[s] = "open" /\ socketCid[s] # Null /\ data.to \notin DOMAIN connectionMap) =>
         LET after == onForward(State, s, data)
         IN /\ OfKind(after.log, "emit") = << >>
            /\ [after EXCEPT !.log = << >>] = State
            /\ OfKind(after.log, "ack") = << Entry("ack", s, forwardEventName, [code |-> ErrUnreachable]) >>
  /\ \A cid \in Cids, message \in ServerMessages :
       cid \notin DOMAIN connectionMap =>
         LET r == send(State, cid, message)
         IN r.code = ErrUnreachable /\ r.st = State

\* C5 witness: an authenticated sender addresses a cid that is not
\* connected while another connection is, and gets the error code.
C5_Witness ==
  \E s \in Sockets, t \in Sockets, data \in Payloads :
    /\ status[s] = "open" /\ socketCid[s] # Null /\ data.to \notin DOMAIN connectionMap
    /\ t # s /\ status[t] = "open"
    /\ \E e \in Range(onForward(State, s, data).log) : e.kind = "ack" /\ e.data = [code |-> ErrUnreachable]

\* C6 (unauthenticated sender): a forward event on a connection without a cid
\* is acknowledged with the unauthenticated-sender code, the connection is
\* closed, nothing is emitted and the message callback is not invoked.
C6_UnauthenticatedSender ==
  \A s \in Sockets, data \in Payloads :
    (status[s] # "idle" /\ socketCid[s] = Null) =>
      LET after == onForward(State, s, data)
      IN /\ OfKind(after.log, "ack") = << Entry("ack", s, forwardEventName, [code |-> ErrUnauthenticated]) >>
         /\ after.status[s] = "closed"
         /\ OfKind(after.log, "emit") = << >>
         /\ OfKind(after.log, "onmessage") = << >>
         /\ after.connectionMap = connectionMap /\ after.roomMembers = roomMembers

\* C6 witness: a connected, unauthenticated socket addresses a cid that is
\* registered, and is closed.
C6_Witness ==
  \E s \in Sockets, data \in Payloads :
    /\ status[s] = "open" /\ socketCid[s] = Null /\ data.to \in DOMAIN connectionMap
    /\ onForward(State, s, data).status[s] = "closed"

\* C7 as claimed (authentication failure): the connection is acknowledged
\* with the authenticator's error and closed, and the directory and the room
\* registry are the same before and after.
C7_AuthFailureNoMutation ==
  \A s \in Sockets, result \in AuthResults :
    (status[s] = "open" /\ ~Succeeds(result)) =>
      LET after == onAuthentication(State, s, result)
      IN /\ OfKind(after.log, "ack") = << Entry("ack", s, "authentication", [error |-> result.error]) >>
         /\ after.status[s] = "closed"
         /\ after.connectionMap = connectionMap
         /\ after.roomMembers = roomMembers

\* C7 as amended: the connection is acknowledged with the authenticator's
\* error and closed.  If it holds no cid, the directory and the room registry
\* are the same before and after.  If it holds a cid c (it had authenticated
\* before), the close runs its disconnect cleanup and nothing else changes:
\* c leaves the directory and the member set of the connection's room.
C7_AuthFailure ==
  \A s \in Sockets, result \in AuthResults :
    (status[s] = "open" /\ ~Succeeds(result)) =>
      LET after == onAuthentication(State, s, result)
          c == socketCid[s]
      IN /\ OfKind(after.log, "ack") = << Entry("ack", s, "authentication", [error |-> result.error]) >>
         /\ after.log[1].kind = "ack"
         /\ after.status[s] = "closed"
         /\ \A e \in Range(after.log) : e.kind = "emit" => (c # Null /\ e.name = "room-event")
         /\ c = Null => (after.connectionMap = connectionMap /\ after.roomMembers = roomMembers)
         /\ c # Null =>
              /\ DOMAIN after.connectionMap = DOMAIN connectionMap \ {c}
              /\ \A k \in DOMAIN after.connectionMap : after.connectionMap[k] = connectionMap[k]
              /\ \A r \in Rooms : Members(after.roomMembers, r) = IF r = socketRoom[s] THEN Members(roomMembers, r) \ {c} ELSE Members(roomMembers, r)

\* C7 witness: the authenticator refuses a connected, unauthenticated socket
\* while the directory and the registry are not empty; the socket is closed.
C7_Witness ==
  \E s \in Sockets, result \in AuthResults :
    /\ status[s] = "open" /\ socketCid[s] = Null /\ ~Succeeds(result)
    /\ DOMAIN connectionMap # {} /\ DOMAIN roomMembers # {}
    /\ onAuthentication(State, s, result).status[s] = "closed"

\* C8 (idempotent disconnect): running the disconnect cleanup of an
\* authenticated connection twice in a row leaves the directory and the room
\* registry as running it once does.
C8_IdempotentDisconnect ==
  \A s \in Sockets, r1 \in AllReasons, r2 \in AllReasons :
    socketCid[s] # Null =>
      LET once == onDisconnect(State, s, r1)
          twice == onDisconnect(once, s, r2)
      IN twice.connectionMap = once.connectionMap /\ twice.roomMembers = once.roomMembers

\* C8 witness: a connected, registered client that is a member of its room,
\* whose cleanup changes both maps.
C8_Witness ==
  \E s \in Sockets :
    /\ status[s] = "open" /\ socketCid[s] \in DOMAIN connectionMap
    /\ socketCid[s] \in Members(roomMembers, socketRoom[s])
    /\ LET once == onDisconnect(State, s, "transport close")
       IN once.connectionMap # connectionMap /\ once.roomMembers # roomMembers

\* The 'user-left' room events of a handler's log.
UserLeft(lg) == SelectSeq(lg, LAMBDA e : e.kind = "emit" /\ e.name = "room-event" /\ e.data.type = "user-left")

\* The connections registered, in directory cm, under the members of room r
\* in registry rm.
Peers(cm, rm, r) == {cm[m] : m \in Members(rm, r) \cap DOMAIN cm}

\* C9 (disconnect cleanup): after a transport disconnect of an authenticated
\* connection with cid c and room r, c is absent from the directory and from
\* r's member set, and a 'user-left' event naming c and carrying r's member
\* list after the removal is sent to the remaining peers of r, and not to
\* the departing connection.
C9_DisconnectCleanup ==
  \A s \in Sockets, reason \in TransportReasons :
    (status[s] = "open" /\ socketCid[s] # Null) =>
      LET c == socketCid[s]
          r == socketRoom[s]
          after == Close(State, s, reason)
          left == UserLeft(after.log)
      IN /\ c \notin DOMAIN after.connectionMap
         /\ c \notin Members(after.roomMembers, r)
         /\ \A e \in Range(left) : e.data.cid = c /\ Range(e.data.users) = Members(after.roomMembers, r)
         /\ {e.sock : e \in Range(left)} = Peers(after.connectionMap, after.roomMembers, r) \ {s}

\* The calls of the disconnect observer with cid c in a handler's log.
Notifications(lg, c) == SelectSeq(lg, LAMBDA e : e.kind = "ondisconnect" /\ e.name = c)

\* C10 (disconnect observer): however the session of a connection that
\* authenticated as c ends (a transport disconnect, server.disconnect(c),
\* eviction by a newer session for c), the disconnect observer is invoked
\* with c exactly once; it is never invoked for a connection without a cid.
C10_DisconnectObserver ==
  \A s \in Sockets :
    status[s] = "open" =>
      IF socketCid[s] = Null
      THEN \A reason \in TransportReasons : OfKind(Close(State, s, reason).log, "ondisconnect") = << >>
      ELSE LET c == socketCid[s]
           IN /\ \A reason \in TransportReasons : Len(Notifications(Close(State, s, reason).log, c)) = 1
              /\ (c \in DOMAIN connectionMap /\ connectionMap[c] = s) =>
                   /\ Len(Notifications(disconnectClient(State, c).log, c)) = 1
                   /\ \A t \in Sockets \ {s}, result \in AuthResults :
                        (status[t] = "open" /\ Succeeds(result) /\ result.cid = c) =>
                          Len(Notifications(onAuthentication(State, t, result).log, c)) = 1

\* The 'user-joined' room events of a handler's log.
UserJoined(lg) == SelectSeq(lg, LAMBDA e : e.kind = "emit" /\ e.name = "room-event" /\ e.data.type = "user-joined")

\* The room a successful authenticator result places the client in (line 74).
RoomOf(result) == IF result.room = Null THEN DefaultRoom ELSE result.room

\* C11 (join broadcast payload): when cid c successfully joins room r on a
\* connected socket, every 'user-joined' room event broadcast to r names c as
\* the acting cid and its member list is r's member set right after the
\* join, which includes c.
C11_JoinPayload ==
  \A s \in Sockets, result \in AuthResults :
    (status[s] = "open" /\ Succeeds(result)) =>
      LET after == onAuthentication(State, s, result)
      IN \A e \in Range(UserJoined(after.log)) :
           /\ e.data.cid = result.cid
           /\ Range(e.data.users) = Members(after.roomMembers, RoomOf(result))

\* What a handler did to socket t by way of eviction, in order: the
\* 'server-disconnect' notifications it emitted to t and the closes of t.
EvictionSteps(lg, t) == SelectSeq(lg, LAMBDA e : e.sock = t /\ ((e.kind = "emit" /\ e.name = "server-disconnect") \/ e.kind = "close"))

Kinds(lg) == [i \in 1..Len(lg) |-> lg[i].kind]

\* C12 (eviction): server.disconnect(c) on a cid the directory holds emits
\* 'server-disconnect' to the held connection exactly once and before it
\* closes that connection, removes the entry and leaves the connection
\* closed; on an absent cid it changes nothing and emits nothing; a second
\* call right after the first adds nothing.
C12_Eviction ==
  \A c \in Cids :
    LET once == disconnectClient(State, c)
        twice == disconnectClient(once, c)
    IN /\ twice = once
       /\ c \notin DOMAIN connectionMap => once = State
       /\ c \in DOMAIN connectionMap =>
            LET t == connectionMap[c]
            IN /\ Kinds(EvictionSteps(once.log, t)) = (IF status[t] = "open" THEN <<"emit", "close">> ELSE <<"emit">>)
               /\ c \notin DOMAIN once.connectionMap
               /\ once.status[t] = "closed"

\* C12 witness: a cid held by a connected socket while another cid is absent;
\* the eviction notifies, closes and unregisters.
C12_Witness ==
  \E c \in Cids, d \in Cids :
    /\ c \in DOMAIN connectionMap /\ status[connectionMap[c]] = "open"
    /\ d \notin DOMAIN connectionMap
    /\ LET once == disconnectClient(State, c)
       IN /\ Kinds(EvictionSteps(once.log, connectionMap[c])) = <<"emit", "close">>
          /\ once.connectionMap # connectionMap
          /\ once.status[connectionMap[c]] = "closed"

\* C13 (disconnect cause is diagnostic only): for an authenticated
\* connection, the directory, the room registry, the socket fields, the
\* broadcasts emitted and the observer call that result from its disconnect
\* handling are the same for every disconnect reason: what each reason the
\* transport reports yields is what the server-initiated reason yields.
C13_ReasonDiagnosticOnly ==
  \A s \in Sockets, reason \in AllReasons :
    socketCid[s] # Null =>
      /\ onDisconnect(State, s, reason) = onDisconnect(State, s, ServerReason)
      /\ Close(State, s, reason) = Close(State, s, ServerReason)

\* C13 witness: a connected, registered member of a room with a connected
\* peer on the same listener; its disconnect handling unregisters it, sends
\* 'user-left' and calls the observer.
C13_Witness ==
  \E s \in Sockets :
    /\ status[s] = "open" /\ socketCid[s] \in DOMAIN connectionMap
    /\ LET after == Close(State, s, "ping timeout")
       IN /\ after.connectionMap # connectionMap
          /\ after.roomMembers # roomMembers
          /\ UserLeft(after.log) # << >>
          /\ OfKind(after.log, "ondisconnect") # << >>

\* C14 (unauthenticated disconnect is a no-op): a disconnect of a connected
\* socket that never completed authentication leaves the connection
\* directory and the room registry unchanged, emits no room event and does
\* not call the disconnect observer.
C14_UnauthenticatedDisconnect ==
  \A s \in Sockets, reason \in TransportReasons :
    (status[s] = "open" /\ socketCid[s] = Null) =>
      LET after == Close(State, s, reason)
      IN /\ after.connectionMap = connectionMap
         /\ after.roomMembers = roomMembers
         /\ EmitsOf(after.log, "room-event") = << >>
         /\ OfKind(after.log, "ondisconnect") = << >>

\* C14 witness: an unauthenticated socket disconnects while another client is
\* registered and in a room on the same listener.
C14_Witness ==
  \E s \in Sockets, t \in Sockets :
    /\ status[s] = "open" /\ socketCid[s] = Null
    /\ status[t] = "open" /\ socketCid[t] \in DOMAIN connectionMap /\ listener[t] = listener[s]
    /\ DOMAIN roomMembers # {}
    /\ Close(State, s, "transport close").status[s] = "closed"

\* The sockets the entries of a log were sent to.
Reached(lg) == {e.sock : e \in Range(lg)}

\* C15 (broadcast reach): a room broadcast for room r reaches every
\* connection registered in the directory under a cid that is a member of r,
\* whichever listener it arrived on, and no connection that is closed.  For
\* the first handshake of a connection joining r this is said of 'room-list'
\* and 'user-joined'; for the transport disconnect of an authenticated
\* connection of r, of 'user-left'.
C15_BroadcastReach ==
  /\ \A s \in Sockets, result \in AuthResults :
       (status[s] = "open" /\ socketCid[s] = Null /\ Succeeds(result)) =>
         LET after == onAuthentication(State, s, result)
             reach == Peers(after.connectionMap, after.roomMembers, RoomOf(result))
         IN /\ Reached(EmitsOf(after.log, "room-list")) = reach
            /\ Reached(UserJoined(after.log)) = reach
            /\ \A t \in reach : after.status[t] = "open"
  /\ \A s \in Sockets, reason \in TransportReasons :
       (status[s] = "open" /\ socketCid[s] # Null) =>
         LET after == Close(State, s, reason)
             reach == Peers(after.connectionMap, after.roomMembers, socketRoom[s])
         IN /\ Reached(UserLeft(after.log)) = reach
            /\ \A t \in reach : after.status[t] = "open"

\* C16 (atomic registration): a successful authentication for cid c on a
\* connected socket s evicts the old connection and installs the new one as
\* one step.  The handler yields nowhere between lines 75 and 79, and the one
\* handler that runs inside it, the evicted connection's own disconnect
\* listener, leaves the directory alone: afterwards the directory is the one
\* before the handshake with c mapped to s (the new entry is not lost, no
\* other key is touched), and no connected socket other than s carries c (no
\* two sessions for c).
C16_AtomicRegistration ==
  \A s \in Sockets, result \in AuthResults :
    (status[s] = "open" /\ Succeeds(result)) =>
      LET c == result.cid
          after == onAuthentication(State, s, result)
      IN /\ after.connectionMap = MapSet(connectionMap, c, s)
         /\ \A t \in Sockets \ {s} : ~(after.status[t] = "open" /\ after.socketCid[t] = c)

\* C16 witness: cid c is held by a connected socket t when another connected
\* socket s authenticates as c; t is closed inside the handshake (its
\* disconnect listener runs there) and the directory then maps c to s.
C16_Witness ==
  \E s \in Sockets, t \in Sockets, result \in AuthResults :
    /\ t # s /\ status[s] = "open" /\ socketCid[s] = Null /\ Succeeds(result)
    /\ result.cid \in DOMAIN connectionMap /\ connectionMap[result.cid] = t /\ status[t] = "open"
    /\ LET after == onAuthentication(State, s, result)
       IN /\ Kinds(EvictionSteps(after.log, t)) = <<"emit", "close">>
          /\ after.status[t] = "closed" /\ after.status[s] = "open"
          /\ after.connectionMap[result.cid] = s

\* The handshake step a log entry belongs to: 1 eviction of the prior
\* session, 2 'server-authenticated', 3 'room-list', 4 'user-joined', 5 the
\* acknowledgment.
Phase(e) ==
  CASE e.kind = "ack" -> 5
    [] e.kind = "emit" /\ e.name = "room-event" -> 4
    [] e.kind = "emit" /\ e.name = "room-list" -> 3
    [] e.kind = "emit" /\ e.name = "server-authenticated" -> 2
    [] OTHER -> 1

Phases(lg) == [i \in 1..Len(lg) |-> Phase(lg[i])]

Ordered(seq) == \A i \in 1..Len(seq), j \in 1..Len(seq) : i < j => seq[i] <= seq[j]

\* C17 as claimed (handshake step order): on a successful authentication the
\* acknowledgment {uid, room} is sent before the 'room-list' and the
\* 'user-joined' broadcasts: no broadcast entry precedes it in the handler's
\* log.
C17_AckBeforeBroadcasts ==
  \A s \in Sockets, result \in AuthResults :
    (status[s] = "open" /\ Succeeds(result)) =>
      LET lg == onAuthentication(State, s, result).log
      IN \A i \in 1..Len(lg), j \in 1..Len(lg) :
           (Phase(lg[i]) \in {3, 4} /\ Phase(lg[j]) = 5) => j < i

\* C17 amended (handshake step order): on a successful authentication the
\* steps are: evict the prior session, register, join the room (the
\* broadcasts carry the registry after the join, with the new cid in it, and
\* reach the new connection itself), emit 'server-authenticated' {uid} to the
\* connection, broadcast 'room-list', broadcast 'user-joined', and last of
\* all acknowledge the handshake with {uid, room}.
C17_HandshakeOrder ==
  \A s \in Sockets, result \in AuthResults :
    (status[s] = "open" /\ Succeeds(result)) =>
      LET c == result.cid
          r == RoomOf(result)
          after == onAuthentication(State, s, result)
          lg == after.log
      IN /\ Ordered(Phases(lg))
         /\ lg[Len(lg)] = Entry("ack", s, "authentication", [uid |-> c, room |-> r])
         /\ OfKind(lg, "ack") = <<lg[Len(lg)]>>
         /\ EmitsOf(lg, "server-authenticated") = <<Entry("emit", s, "server-authenticated", [uid |-> c])>>
         /\ \A e \in Range(EmitsOf(lg, "room-list")) : e.data.users = after.roomMembers[r] /\ c \in Range(e.data.users)
         /\ after.connectionMap[c] = s
         /\ after.status[s] = "open" => s \in Reached(EmitsOf(lg, "room-list")) \cap Reached(UserJoined(lg))

\* C17 witness: a first handshake whose 'room-list' and 'user-joined'
\* broadcasts reach a peer of the room as well as the new connection, with
\* the acknowledgment as the last step.
C17_Witness ==
  \E s \in Sockets, result \in AuthResults :
    /\ status[s] = "open" /\ socketCid[s] = Null /\ Succeeds(result)
    /\ LET lg == onAuthentication(State, s, result).log
       IN /\ Len(lg) >= 4
          /\ Phase(lg[Len(lg)]) = 5
          /\ \E i \in 1..Len(lg) : Phase(lg[i]) = 3 /\ lg[i].sock # s
          /\ \E i \in 1..Len(lg) : Phase(lg[i]) = 4 /\ lg[i].sock # s

\* C18 (directory entries are consistent and live): in every reachable
\* state, every entry cid -> connection of the directory refers to a
\* connection that is connected and whose own socket.cid is the key; so no
\* connection is registered under two cids and no closed connection stays
\* in the directory.
C18_DirectoryLive ==
  \A c \in DOMAIN connectionMap :
    status[connectionMap[c]] = "open" /\ socketCid[connectionMap[c]] = c

Told(lg, p, type, c) == \E e \in Range(EmitsOf(lg, "room-event")) : e.sock = p /\ e.data.type = type /\ e.data.cid = c

\* The states in which the session that socket s holds for cid c in room r
\* has just ended, one for each cause: a transport disconnect of s,
\* server.disconnect(c), the handshake of another connected socket that is
\* assigned c and a room other than r.
SessionEnds(st, s, c, r) ==
  {Close(st, s, reason) : reason \in TransportReasons}
    \cup {disconnectClient(st, c)}
    \cup {onAuthentication(st, t, result) : <<t, result>> \in {x \in Sockets \X AuthResults : x[1] # s /\ st.status[x[1]] = "open" /\ Succeeds(x[2]) /\ x[2].cid = c /\ RoomOf(x[2]) # r}}

\* C20 (departure is announced): a peer p registered in room r is sent
\* 'user-joined' for cid c when socket s joins r as c; c's session then ends,
\* for any cause, while p stays registered.  The program defers nothing (it
\* has no timer and no queue): what the end of a session announces, it
\* announces inside the handler that ends it.  So when that handler returns,
\* p has been sent 'user-left' for c and c is absent from r's member set.
C20_DepartureAnnounced ==
  \A p \in Sockets, s \in Sockets, result \in AuthResults :
    (/\ p # s /\ status[p] = "open" /\ status[s] = "open" /\ socketCid[s] = Null /\ Succeeds(result)
     /\ socketCid[p] \in DOMAIN connectionMap /\ connectionMap[socketCid[p]] = p
     /\ socketCid[p] # result.cid /\ socketRoom[p] = RoomOf(result)
     /\ socketCid[p] \in Members(roomMembers, RoomOf(result))
     /\ Told(onAuthentication(State, s, result).log, p, "user-joined", result.cid)) =>
      LET c == result.cid
          r == RoomOf(result)
          present == [onAuthentication(State, s, result) EXCEPT !.log = << >>]
      IN \A ended \in SessionEnds(present, s, c, r) :
           /\ Told(ended.log, p, "user-left", c)
           /\ c \notin Members(ended.roomMembers, r)

====
